---- MODULE Spec2Model ----
(***************************************************************************)
(* School-records manager: the entity model (models.py), the persistence   *)
(* adapter (data_manager.py) and the handlers of the front-ends that call  *)
(* them.  Python objects live in three heaps (one sequence per class, an   *)
(* object reference is an index, None is 0); the DataManager's mirrors are *)
(* insertion-ordered dictionaries; the SQLite store is four tables.        *)
(***************************************************************************)
EXTENDS Integers, Sequences, FiniteSets, TLC

\* ---------------------------------------------------------------- bounds
\* Number of Student, Instructor and Course objects ever constructed.
MaxObjects == 3

\* ------------------------------------------------------------ input sets
\* Business keys handed to the constructors.
StudentIds == {"S1", "S2"}
InstructorIds == {"I1", "I2"}
CourseIds == {"C1", "C2"}
\* The k-th object a caller constructs of a class is given the k-th name, so
\* that two objects of one class never carry the same fields.
NameOf == <<"Ann", "Bob", "Cyd", "Dee", "Eve", "Fay">>
CourseNameOf == <<"Algebra", "Biology", "Chemistry", "Drama", "Ethics", "French">>
\* A Python value given as an age: an int, a float (v counts tenths) or a
\* str.
PyInt(n) == [type |-> "int", v |-> n]
PyFloat(tenths) == [type |-> "float", v |-> tenths]
PyStr == [type |-> "str", v |-> 0]
Ages == {PyInt(20)}
\* An email is the sequence of its characters.
Emails == {<<"a", "@", "b", ".", "c">>}

\* Arguments a caller can hand to the Student and Instructor constructors,
\* the rejected ones included.
AnyNames == {"", "Ann"}
AnyAges == {PyInt(-1), PyInt(0), PyInt(20), PyFloat(25), PyStr}
AnyEmails == {<<"a", "@", "b", ".", "c">>, <<"a", "b", ".", "c">>}

\* What a user types into the name and age entries of the tkinter forms.
TkNames == {"Ann", "Bob"}
TkAges == {<<"2", "0">>, <<"-", "1">>, <<"x">>}
TkCourseNames == {"Algebra"}
\* What a user types into the id entries.
TkStudentIds == {"S1"}
TkInstructorIds == {"I1"}
TkCourseIds == {"C1"}
\* A narrower choice of typed values, for the specifications that run every
\* handler: one name, a numeric and a non-numeric age.
FewNames == {"Ann"}
FewAges == {<<"2", "0">>, <<"x">>}
\* What a user types into the name and email inputs of the PyQt forms.
QtNames == {"Ann", "Bob"}
QtEmails == {<<"a", "@", "b", ".", "c">>, <<"a", "b", ".", "c">>}

\* Python's None as an object reference, and NULL / None as a key.
None == 0
NULL == "NULL"

VARIABLES
    studentObj,      \* heap of Student objects       (models.py 106-127)
    instructorObj,   \* heap of Instructor objects    (models.py 180-201)
    courseObj,       \* heap of Course objects        (models.py 254-277)
    students,        \* DataManager.students, dict student_id -> Student
    instructors,     \* DataManager.instructors       (data_manager.py 34)
    courses,         \* DataManager.courses           (data_manager.py 35)
    tbl_students,    \* table students: student_id -> row
    tbl_instructors, \* table instructors: instructor_id -> row
    tbl_courses,     \* table courses: course_id -> row
    tbl_registrations, \* table registrations: set of <<student_id, course_id>>
    file,            \* the JSON document last written by save_data
    ui,              \* the tkinter form: edit_mode, current_edit_id and the
                     \* three id entries (main_tkinter_updated.py 35-36)
    qt,              \* school.db of the PyQt front-end: the rows of its
                     \* students and instructors tables (main_PyQt.py 9-26)
    last             \* the call that produced this state and how it ended

vars == <<studentObj, instructorObj, courseObj, students, instructors, courses,
          tbl_students, tbl_instructors, tbl_courses, tbl_registrations,
          file, ui, qt, last>>

heapVars == <<studentObj, instructorObj, courseObj>>
mirrorVars == <<students, instructors, courses>>
dbVars == <<tbl_students, tbl_instructors, tbl_courses, tbl_registrations>>

\* -------------------------------------------------------- Python lists
Contains(list, x) == \E k \in 1..Len(list) : list[k] = x

IndexOf(list, x) == CHOOSE k \in 1..Len(list) :
                        list[k] = x /\ \A j \in 1..(k - 1) : list[j] # x

\* list.remove(x) on a list that holds x: the first occurrence goes.
ListRemove(list, x) ==
    LET k == IndexOf(list, x)
    IN  [j \in 1..(Len(list) - 1) |-> IF j < k THEN list[j] ELSE list[j + 1]]

Count(list, x) == Cardinality({k \in 1..Len(list) : list[k] = x})

\* An id entry of a form: while the entry is disabled its text is the id it
\* showed when it was disabled (insert and delete do nothing on a disabled
\* Entry); while it is normal the user types what the next handler reads, so
\* the text is kept as "".
Entry(state, text) == [state |-> state, text |-> text]

\* The form of SchoolManagementSystem.__init__: not editing, id entries open,
\* no row in the treeview (rows are <<record type, id>>) and no course in the
\* two course listboxes (sequences of course ids).
NoEdit ==
    [edit_mode |-> NULL, current_edit_id |-> NULL,
     student_id |-> Entry("normal", ""),
     instructor_id |-> Entry("normal", ""),
     course_id |-> Entry("normal", ""),
     tree |-> {},
     student_courses |-> <<>>,
     instructor_courses |-> <<>>]

\* ------------------------------------------------------------- the heap
\* The program state as one record, threaded through the methods: the three
\* object heaps, the DataManager's mirrors and tables, the form, the exception
\* in flight, whether the last INSERT of the call went through, and the
\* records the call has processed so far, in order.
Heap == [student |-> studentObj, instructor |-> instructorObj,
         course |-> courseObj,
         students |-> students, instructors |-> instructors,
         courses |-> courses,
         tbl_students |-> tbl_students, tbl_instructors |-> tbl_instructors,
         tbl_courses |-> tbl_courses,
         tbl_registrations |-> tbl_registrations,
         ui |-> ui,
         exc |-> "none", ok |-> TRUE, log |-> <<>>]

Student(name, age, email, student_id) ==
    [name |-> name, age |-> age, email |-> email, student_id |-> student_id,
     registered_courses |-> <<>>]

Instructor(name, age, email, instructor_id) ==
    [name |-> name, age |-> age, email |-> email,
     instructor_id |-> instructor_id, assigned_courses |-> <<>>]

Course(course_id, course_name, instructor) ==
    [course_id |-> course_id, course_name |-> course_name,
     instructor |-> instructor, enrolled_students |-> <<>>]

SetRegistered(h, s, list) ==
    [h EXCEPT !.student[s].registered_courses = list]
SetEnrolled(h, c, list) ==
    [h EXCEPT !.course[c].enrolled_students = list]
SetAssigned(h, i, list) ==
    [h EXCEPT !.instructor[i].assigned_courses = list]
SetCourseInstructor(h, c, i) ==
    [h EXCEPT !.course[c].instructor = i]
Raise(h, e) == [h EXCEPT !.exc = e]
Log(h, kind, id) == [h EXCEPT !.log = Append(h.log, [kind |-> kind, id |-> id])]

RECURSIVE Student_register_course(_, _, _)
RECURSIVE Course_add_student(_, _, _)

\* A register_course without the membership test.
Student_register_course_Again(h, s, c) ==
    Course_add_student(
        SetRegistered(h, s, Append(h.student[s].registered_courses, c)),
        c, s)

\* A register_course that forgets the course's side.
Student_register_course_OneSided(h, s, c) ==
    IF ~Contains(h.student[s].registered_courses, c)
    THEN SetRegistered(h, s, Append(h.student[s].registered_courses, c))
    ELSE h

Student_register_course(h, s, c) ==
    IF ~Contains(h.student[s].registered_courses, c)
    THEN Course_add_student(
             SetRegistered(h, s, Append(h.student[s].registered_courses, c)),
             c, s)
    ELSE h

\* An add_student that forgets the student's side.
Course_add_student_OneSided(h, c, s) ==
    IF ~Contains(h.course[c].enrolled_students, s)
    THEN SetEnrolled(h, c, Append(h.course[c].enrolled_students, s))
    ELSE h

Course_add_student(h, c, s) ==
    IF ~Contains(h.course[c].enrolled_students, s)
    THEN LET h2 == SetEnrolled(h, c, Append(h.course[c].enrolled_students, s))
         IN  IF ~Contains(h2.student[s].registered_courses, c)
             THEN Student_register_course(h2, s, c)
             ELSE h2
    ELSE h

Student_unregister_course_OneSided(h, s, c) ==
    IF Contains(h.student[s].registered_courses, c)
    THEN SetRegistered(h, s, ListRemove(h.student[s].registered_courses, c))
    ELSE h

Student_unregister_course(h, s, c) ==
    IF Contains(h.student[s].registered_courses, c)
    THEN LET h2 == SetRegistered(h, s,
                       ListRemove(h.student[s].registered_courses, c))
         IN  IF Contains(h2.course[c].enrolled_students, s)
             THEN SetEnrolled(h2, c,
                      ListRemove(h2.course[c].enrolled_students, s))
             ELSE Raise(h2, "ValueError")
    ELSE h

RECURSIVE Instructor_assign_course(_, _, _)
RECURSIVE Course_set_instructor(_, _, _)

Instructor_assign_course(h, i, c) ==
    IF ~Contains(h.instructor[i].assigned_courses, c)
    THEN Course_set_instructor(
             SetAssigned(h, i, Append(h.instructor[i].assigned_courses, c)),
             c, i)
    ELSE h

Course_set_instructor(h, c, i) ==
    LET h2 == SetCourseInstructor(h, c, i)
    IN  IF i = None
        THEN Raise(h2, "AttributeError")
        ELSE IF ~Contains(h2.instructor[i].assigned_courses, c)
             THEN Instructor_assign_course(h2, i, c)
             ELSE h2

Instructor_unassign_course(h, i, c) ==
    IF Contains(h.instructor[i].assigned_courses, c)
    THEN SetCourseInstructor(
             SetAssigned(h, i, ListRemove(h.instructor[i].assigned_courses, c)),
             c, None)
    ELSE h

\* ------------------------------------------------------- Person.__init__
Whitespace == {" ", "\t", "\n"}

\* re.match(r'^\S+@\S+\.\S+$', email): one or more non-blank characters, an
\* "@", one or more non-blank characters, a ".", one or more non-blank
\* characters; "$" also matches just before one final newline.
MatchesUpTo(email, n) ==
    /\ \A k \in 1..n : email[k] \notin Whitespace
    /\ \E a \in 2..n : \E d \in (a + 2)..(n - 1) :
           email[a] = "@" /\ email[d] = "."

validate_email(email) ==
    \/ MatchesUpTo(email, Len(email))
    \/ Len(email) > 0 /\ email[Len(email)] = "\n"
                      /\ MatchesUpTo(email, Len(email) - 1)

\* The exception Person.__init__ raises for these arguments, or "none";
\* "age >= 0" between a str and an int is a TypeError.
Person_init(name, age, email) ==
    IF age.type = "str" THEN "TypeError"
    ELSE IF ~(age.v >= 0) THEN "ValueError"
    ELSE IF ~validate_email(email) THEN "ValueError"
    ELSE "none"

\* Student(name, age, email, student_id): the new object is the last of the
\* heap; nothing is allocated when the constructor raises.
Student_init(h, name, age, email, student_id) ==
    IF Person_init(name, age, email) # "none"
    THEN Raise(h, Person_init(name, age, email))
    ELSE [h EXCEPT !.student =
              Append(h.student, Student(name, age, email, student_id))]

Instructor_init(h, name, age, email, instructor_id) ==
    IF Person_init(name, age, email) # "none"
    THEN Raise(h, Person_init(name, age, email))
    ELSE [h EXCEPT !.instructor =
              Append(h.instructor, Instructor(name, age, email, instructor_id))]

Course_init(h, course_id, course_name, instructor) ==
    [h EXCEPT !.course = Append(h.course,
                                Course(course_id, course_name, instructor))]

\* ------------------------------------------------------------ Python dict
\* A dict keeps insertion order: a sequence of [key, val] entries, keys unique.
EmptyDict == <<>>
DictKeys(d) == {d[k].key : k \in 1..Len(d)}
DictPos(d, key) == CHOOSE k \in 1..Len(d) : d[k].key = key
DictGet(d, key) == IF key \in DictKeys(d) THEN d[DictPos(d, key)].val ELSE None
DictSet(d, key, val) ==
    IF key \in DictKeys(d)
    THEN [d EXCEPT ![DictPos(d, key)].val = val]
    ELSE Append(d, [key |-> key, val |-> val])
DictPop(d, key) ==
    IF key \in DictKeys(d)
    THEN LET p == DictPos(d, key)
         IN  [j \in 1..(Len(d) - 1) |-> IF j < p THEN d[j] ELSE d[j + 1]]
    ELSE d
DictValues(d) == [k \in 1..Len(d) |-> d[k].val]

\* ----------------------------------------------------------------- SQLite
\* A table with a single-column primary key is a function from key to row.
EmptyTable == [k \in {} |-> NULL]

sqlite3_Error == {"IntegrityError", "OperationalError"}

\* INSERT OR REPLACE instead of INSERT.
SqlInsertOrReplace(tbl, key, row, fkOk) ==
    IF ~fkOk
    THEN [tbl |-> tbl, err |-> "IntegrityError"]
    ELSE [tbl |-> [k \in DOMAIN tbl \cup {key} |->
                      IF k = key THEN row ELSE tbl[k]],
          err |-> "none"]

\* INSERT INTO tbl VALUES (key, row): a duplicate primary key or a violated
\* foreign key (PRAGMA foreign_keys = ON) is an IntegrityError, the table
\* unchanged.
SqlInsert(tbl, key, row, fkOk) ==
    IF key \in DOMAIN tbl \/ ~fkOk
    THEN [tbl |-> tbl, err |-> "IntegrityError"]
    ELSE [tbl |-> [k \in DOMAIN tbl \cup {key} |->
                      IF k = key THEN row ELSE tbl[k]],
          err |-> "none"]

\* The tables the store holds once DataManager.__init__ has run; the
\* program never drops a table.
sqlite_master == {"students", "instructors", "courses", "registrations"}

\* CREATE TABLE without IF NOT EXISTS.
SqlCreateTable(tbl, name, empty) ==
    IF name \in sqlite_master
    THEN [tbl |-> tbl, err |-> "OperationalError"]
    ELSE [tbl |-> empty, err |-> "none"]

\* CREATE TABLE IF NOT EXISTS name: a table the store already holds is left
\* as it is, rows included; otherwise the table is created without rows.
SqlCreateTableIfNotExists(tbl, name, empty) ==
    IF name \in sqlite_master
    THEN [tbl |-> tbl, err |-> "none"]
    ELSE [tbl |-> empty, err |-> "none"]

\* DELETE FROM tbl WHERE key = ?
SqlDelete(tbl, key) == [k \in DOMAIN tbl \ {key} |-> tbl[k]]

\* registrations: ON DELETE CASCADE on student_id / course_id.
CascadeStudent(regs, student_id) == {r \in regs : r[1] # student_id}
CascadeCourse(regs, course_id) == {r \in regs : r[2] # course_id}

\* courses.instructor_id: ON DELETE SET NULL, and the UPDATE of
\* delete_instructor (the same rows).
SetNullInstructor(tbl, instructor_id) ==
    [k \in DOMAIN tbl |->
        IF tbl[k].instructor_id = instructor_id
        THEN [tbl[k] EXCEPT !.instructor_id = NULL]
        ELSE tbl[k]]

\* ------------------------------------------------------------ DataManager
\* DataManager.create_tables: the four statements in order, then commit;
\* an error of a statement is not caught.
DataManager_create_tables(h) ==
    LET s == SqlCreateTableIfNotExists(h.tbl_students, "students", EmptyTable)
        i == SqlCreateTableIfNotExists(h.tbl_instructors, "instructors",
                                       EmptyTable)
        c == SqlCreateTableIfNotExists(h.tbl_courses, "courses", EmptyTable)
        r == SqlCreateTableIfNotExists(h.tbl_registrations, "registrations",
                                       {})
    IN  IF s.err # "none" THEN Raise(h, s.err)
        ELSE IF i.err # "none" THEN Raise(h, i.err)
        ELSE IF c.err # "none" THEN Raise(h, c.err)
        ELSE IF r.err # "none" THEN Raise(h, r.err)
        ELSE [h EXCEPT !.tbl_students = s.tbl, !.tbl_instructors = i.tbl,
                       !.tbl_courses = c.tbl, !.tbl_registrations = r.tbl]

StudentRow(st) == [name |-> st.name, age |-> st.age, email |-> st.email]
InstructorRow(in) == [name |-> in.name, age |-> in.age, email |-> in.email]
CourseRow(h, co) ==
    [course_name |-> co.course_name,
     instructor_id |-> IF co.instructor # None
                       THEN h.instructor[co.instructor].instructor_id
                       ELSE NULL]

\* What "except sqlite3.Error" lets through.
ExceptSqlite(err) == IF err \in sqlite3_Error THEN "none" ELSE err

\* A mirror written whether or not the INSERT went through.
MirrorAfterInsert_Always(mirror, err, key, obj) == DictSet(mirror, key, obj)

\* self.students[student.student_id] = student, reached only when execute
\* and commit did not raise.
MirrorAfterInsert(mirror, err, key, obj) ==
    IF err = "none" THEN DictSet(mirror, key, obj) ELSE mirror

DataManager_add_student(h, s) ==
    LET st == h.student[s]
        r  == SqlInsert(h.tbl_students, st.student_id, StudentRow(st), TRUE)
    IN  [h EXCEPT !.tbl_students = r.tbl,
                  !.students = MirrorAfterInsert(h.students, r.err,
                                                 st.student_id, s),
                  !.ok = (r.err = "none"),
                  !.exc = ExceptSqlite(r.err)]

DataManager_add_instructor(h, i) ==
    LET in == h.instructor[i]
        r  == SqlInsert(h.tbl_instructors, in.instructor_id,
                        InstructorRow(in), TRUE)
    IN  [h EXCEPT !.tbl_instructors = r.tbl,
                  !.instructors = MirrorAfterInsert(h.instructors, r.err,
                                                    in.instructor_id, i),
                  !.ok = (r.err = "none"),
                  !.exc = ExceptSqlite(r.err)]

DataManager_add_course(h, c) ==
    LET co  == h.course[c]
        row == CourseRow(h, co)
        r   == SqlInsert(h.tbl_courses, co.course_id, row,
                         row.instructor_id = NULL
                             \/ row.instructor_id \in DOMAIN h.tbl_instructors)
    IN  [h EXCEPT !.tbl_courses = r.tbl,
                  !.courses = MirrorAfterInsert(h.courses, r.err,
                                                co.course_id, c),
                  !.ok = (r.err = "none"),
                  !.exc = ExceptSqlite(r.err)]

DataManager_delete_student(h, student_id) ==
    [h EXCEPT !.tbl_students = SqlDelete(h.tbl_students, student_id),
              !.tbl_registrations =
                  CascadeStudent(h.tbl_registrations, student_id),
              !.students = DictPop(h.students, student_id)]

\* for course in self.courses.values(): clear the instructor whose
\* instructor_id is the deleted one.
ClearInstructor(h, instructor_id) ==
    [h EXCEPT !.course =
        [c \in 1..Len(h.course) |->
            IF /\ Contains(DictValues(h.courses), c)
               /\ h.course[c].instructor # None
               /\ h.instructor[h.course[c].instructor].instructor_id
                      = instructor_id
            THEN [h.course[c] EXCEPT !.instructor = None]
            ELSE h.course[c]]]

DataManager_delete_instructor(h, instructor_id) ==
    ClearInstructor(
        [h EXCEPT !.tbl_instructors = SqlDelete(h.tbl_instructors,
                                                instructor_id),
                  !.tbl_courses = SetNullInstructor(h.tbl_courses,
                                                    instructor_id),
                  !.instructors = DictPop(h.instructors, instructor_id)],
        instructor_id)

DataManager_delete_course(h, course_id) ==
    [h EXCEPT !.tbl_courses = SqlDelete(h.tbl_courses, course_id),
              !.tbl_registrations =
                  CascadeCourse(h.tbl_registrations, course_id),
              !.courses = DictPop(h.courses, course_id)]

\* ------------------------------------------------- to_dict / save_data
IdsOfCourses(h, list) == [k \in 1..Len(list) |-> h.course[list[k]].course_id]
IdsOfStudents(h, list) == [k \in 1..Len(list) |-> h.student[list[k]].student_id]

Student_to_dict(h, s) ==
    LET st == h.student[s]
    IN  [name |-> st.name, age |-> st.age, _email |-> st.email,
         student_id |-> st.student_id,
         registered_courses |-> IdsOfCourses(h, st.registered_courses)]

Instructor_to_dict(h, i) ==
    LET in == h.instructor[i]
    IN  [name |-> in.name, age |-> in.age, _email |-> in.email,
         instructor_id |-> in.instructor_id,
         assigned_courses |-> IdsOfCourses(h, in.assigned_courses)]

\* A Course.to_dict that writes null for every instructor.
Course_to_dict_NoInstructor(h, c) ==
    LET co == h.course[c]
    IN  [course_id |-> co.course_id, course_name |-> co.course_name,
         instructor_id |-> NULL,
         enrolled_students |-> IdsOfStudents(h, co.enrolled_students)]

Course_to_dict(h, c) ==
    LET co == h.course[c]
    IN  [course_id |-> co.course_id, course_name |-> co.course_name,
         instructor_id |-> IF co.instructor # None
                           THEN h.instructor[co.instructor].instructor_id
                           ELSE NULL,
         enrolled_students |-> IdsOfStudents(h, co.enrolled_students)]

\* from_dict: the constructor on the values kept under the keys to_dict
\* writes; the course lists of the dictionary are not read.
Student_from_dict_NameAsId(h, data) ==
    Student_init(h, data.name, data.age, data._email, data.name)

Student_from_dict(h, data) ==
    Student_init(h, data.name, data.age, data._email, data.student_id)

Instructor_from_dict(h, data) ==
    Instructor_init(h, data.name, data.age, data._email, data.instructor_id)

Course_from_dict(h, data) ==
    Course_init(h, data.course_id, data.course_name, None)

\* The document json.dump writes (and json.load reads back: strings,
\* integers, lists and null come back as they went).
DataManager_save_data(h) ==
    [students |-> [k \in 1..Len(h.students) |->
                      Student_to_dict(h, h.students[k].val)],
     instructors |-> [k \in 1..Len(h.instructors) |->
                      Instructor_to_dict(h, h.instructors[k].val)],
     courses |-> [k \in 1..Len(h.courses) |->
                      Course_to_dict(h, h.courses[k].val)]]

\* ------------------------------------------------------------- load_data
RECURSIVE LoadStudents(_, _, _)
LoadStudents(h, data, k) ==
    IF k > Len(data) THEN h
    ELSE LET d  == data[k]
             h1 == Student_from_dict(Log(h, "student", d.student_id), d)
             s  == Len(h1.student)
         IN  IF h1.exc # "none" THEN h1
             ELSE LoadStudents(
                      DataManager_add_student(
                          [h1 EXCEPT !.students =
                               DictSet(h1.students, d.student_id, s)], s),
                      data, k + 1)

RECURSIVE LoadInstructors(_, _, _)
LoadInstructors(h, data, k) ==
    IF k > Len(data) THEN h
    ELSE LET d  == data[k]
             h1 == Instructor_from_dict(
                       Log(h, "instructor", d.instructor_id), d)
             i  == Len(h1.instructor)
         IN  IF h1.exc # "none" THEN h1
             ELSE LoadInstructors(
                      DataManager_add_instructor(
                          [h1 EXCEPT !.instructors =
                               DictSet(h1.instructors, d.instructor_id, i)], i),
                      data, k + 1)

RECURSIVE LoadCourses(_, _, _)
LoadCourses(h, data, k) ==
    IF k > Len(data) THEN h
    ELSE LET d  == data[k]
             instructor == IF d.instructor_id # NULL /\ d.instructor_id # ""
                           THEN DictGet(h.instructors, d.instructor_id)
                           ELSE None
             h1 == Course_from_dict(Log(h, "course", d.course_id), d)
             c  == Len(h1.course)
             h2 == Course_set_instructor(h1, c, instructor)
         IN  IF h2.exc # "none" THEN h2
             ELSE LoadCourses(
                      DataManager_add_course(
                          [h2 EXCEPT !.courses =
                               DictSet(h2.courses, d.course_id, c)], c),
                      data, k + 1)

\* for student_id in student_ids: course.add_student(student), then
\* self.register_student_in_course(...), a method DataManager does not have.
RECURSIVE EnrollStudents(_, _, _, _)
EnrollStudents(h, c, student_ids, j) ==
    IF j > Len(student_ids) THEN h
    ELSE LET student == DictGet(h.students, student_ids[j])
         IN  IF student # None
             THEN Raise(Course_add_student(
                            Log(h, "registration", student_ids[j]), c, student),
                        "AttributeError")
             ELSE EnrollStudents(h, c, student_ids, j + 1)

RECURSIVE EnrollCourses(_, _, _)
EnrollCourses(h, data, k) ==
    IF k > Len(data) THEN h
    ELSE LET course == DictGet(h.courses, data[k].course_id)
             h1 == IF course # None
                   THEN EnrollStudents(h, course, data[k].enrolled_students, 1)
                   ELSE h
         IN  IF h1.exc # "none" THEN h1
             ELSE EnrollCourses(h1, data, k + 1)

DataManager_load_data_InstructorsFirst(h, f) ==
    IF Len(f) = 0 THEN h
    ELSE LET data == f[1]
             h1 == LoadInstructors([h EXCEPT !.instructors = EmptyDict],
                                   data.instructors, 1)
             h2 == IF h1.exc # "none" THEN h1
                   ELSE LoadStudents([h1 EXCEPT !.students = EmptyDict],
                                     data.students, 1)
             h3 == IF h2.exc # "none" THEN h2
                   ELSE LoadCourses([h2 EXCEPT !.courses = EmptyDict],
                                    data.courses, 1)
         IN  IF h3.exc # "none" THEN h3
             ELSE EnrollCourses(h3, data.courses, 1)

\* f is <<>> when the file cannot be opened (IOError: printed, return),
\* else <<document>>.
DataManager_load_data(h, f) ==
    IF Len(f) = 0 THEN h
    ELSE LET data == f[1]
             h1 == LoadStudents([h EXCEPT !.students = EmptyDict],
                                data.students, 1)
             h2 == IF h1.exc # "none" THEN h1
                   ELSE LoadInstructors([h1 EXCEPT !.instructors = EmptyDict],
                                        data.instructors, 1)
             h3 == IF h2.exc # "none" THEN h2
                   ELSE LoadCourses([h2 EXCEPT !.courses = EmptyDict],
                                    data.courses, 1)
         IN  IF h3.exc # "none" THEN h3
             ELSE EnrollCourses(h3, data.courses, 1)

\* --------------------------------------------------------------- actions
\* ------------------------------------------------- the tkinter front-end
DigitVal ==
    [c \in {"0", "1", "2", "3", "4", "5", "6", "7", "8", "9"} |->
        CASE c = "0" -> 0 [] c = "1" -> 1 [] c = "2" -> 2 [] c = "3" -> 3
          [] c = "4" -> 4 [] c = "5" -> 5 [] c = "6" -> 6 [] c = "7" -> 7
          [] c = "8" -> 8 [] c = "9" -> 9]

RECURSIVE DigitsValue(_, _)
DigitsValue(t, acc) ==
    IF t = <<>> THEN acc
    ELSE DigitsValue(Tail(t), 10 * acc + DigitVal[Head(t)])

\* int(text) of a text without blanks or underscores: an optional sign and
\* one or more decimal digits, anything else is a ValueError (ok = FALSE).
ParseInt(text) ==
    LET signed == Len(text) > 0 /\ Head(text) \in {"-", "+"}
        digits == IF signed THEN Tail(text) ELSE text
    IN  IF digits = <<>> \/ \E k \in 1..Len(digits) :
                                digits[k] \notin DOMAIN DigitVal
        THEN [ok |-> FALSE, v |-> 0]
        ELSE [ok |-> TRUE,
              v |-> IF signed /\ Head(text) = "-"
                    THEN 0 - DigitsValue(digits, 0)
                    ELSE DigitsValue(digits, 0)]

\* Person.set_email on a student or an instructor.
Student_set_email(h, s, email) ==
    IF validate_email(email) THEN [h EXCEPT !.student[s].email = email]
    ELSE Raise(h, "ValueError")

Instructor_set_email(h, i, email) ==
    IF validate_email(email) THEN [h EXCEPT !.instructor[i].email = email]
    ELSE Raise(h, "ValueError")

\* The courses of the selected listbox rows, in listbox order; rows is a set
\* of positions of the listbox, and a row whose course is no longer in the
\* mirror is skipped.
RECURSIVE SelectedCourses(_, _, _, _)
SelectedCourses(h, listbox, rows, k) ==
    IF k > Len(listbox) THEN <<>>
    ELSE (IF k \in rows /\ DictGet(h.courses, listbox[k]) # None
          THEN <<DictGet(h.courses, listbox[k])>> ELSE <<>>)
             \o SelectedCourses(h, listbox, rows, k + 1)

\* update_display with an empty filter: one treeview row per mirror entry.
Tk_update_display(h) ==
    [h EXCEPT !.ui.tree =
        {<<"Student", id>> : id \in DictKeys(h.students)}
            \cup {<<"Instructor", id>> : id \in DictKeys(h.instructors)}
            \cup {<<"Course", id>> : id \in DictKeys(h.courses)}]

\* The ids of the mirror's courses, in mirror order.
CourseIdsOf(h) ==
    [k \in 1..Len(h.courses) |-> h.course[h.courses[k].val].course_id]

Tk_update_student_courses_listbox(h) ==
    [h EXCEPT !.ui.student_courses = CourseIdsOf(h)]

Tk_update_instructor_courses_listbox(h) ==
    [h EXCEPT !.ui.instructor_courses = CourseIdsOf(h)]

\* The for loops of the handlers; an exception ends the loop.
\* An update that leaves the courses registered before as they are.
UnregisterAll_None(h, s, list, k) == h

RECURSIVE UnregisterAll(_, _, _, _)
UnregisterAll(h, s, list, k) ==
    IF k > Len(list) \/ h.exc # "none" THEN h
    ELSE UnregisterAll(Student_unregister_course(h, s, list[k]), s, list,
                       k + 1)

RECURSIVE RegisterAll(_, _, _, _)
RegisterAll(h, s, list, k) ==
    IF k > Len(list) \/ h.exc # "none" THEN h
    ELSE RegisterAll(Student_register_course(h, s, list[k]), s, list, k + 1)

RECURSIVE UnassignAll(_, _, _, _)
UnassignAll(h, i, list, k) ==
    IF k > Len(list) \/ h.exc # "none" THEN h
    ELSE UnassignAll(Instructor_unassign_course(h, i, list[k]), i, list,
                     k + 1)

RECURSIVE AssignAll(_, _, _, _)
AssignAll(h, i, list, k) ==
    IF k > Len(list) \/ h.exc # "none" THEN h
    ELSE AssignAll(Instructor_assign_course(h, i, list[k]), i, list, k + 1)

\* What a handler read from an id entry: the text of a disabled entry, else
\* what the user typed.
EntryGet(entry, typed) == IF entry.state = "disabled" THEN entry.text ELSE typed

\* entry.delete(0, tk.END).
EntryDelete(entry) ==
    IF entry.state = "disabled" THEN entry ELSE Entry("normal", "")

\* How a handler ended: outcome is "success" (showinfo), "error" (showerror;
\* a caught ValueError is no longer in flight) or "escaped" (an exception
\* left the handler); path is the branch of the handler, obj the entity the
\* handler updated or constructed.
Ended(h, outcome, path, obj) ==
    [h |-> IF outcome = "error" THEN Raise(h, "none") ELSE h,
     outcome |-> outcome, path |-> path, obj |-> obj]

\* "except ValueError": any other exception leaves the handler.
EndedAfterTry(h, path, obj) ==
    IF h.exc = "none" THEN Ended(h, "success", path, obj)
    ELSE IF h.exc = "ValueError" THEN Ended(h, "error", path, obj)
    ELSE Ended(h, "escaped", path, obj)

Tk_clear_student_fields(h) ==
    LET u == [h.ui EXCEPT !.student_id = EntryDelete(@)]
    IN  IF u.edit_mode = "student"
        THEN [h EXCEPT !.ui = [u EXCEPT !.edit_mode = NULL,
                                        !.current_edit_id = NULL,
                                        !.student_id = Entry("normal", "")]]
        ELSE [h EXCEPT !.ui = u]

Tk_clear_instructor_fields(h) ==
    LET u == [h.ui EXCEPT !.instructor_id = EntryDelete(@)]
    IN  IF u.edit_mode = "instructor"
        THEN [h EXCEPT !.ui = [u EXCEPT !.edit_mode = NULL,
                                        !.current_edit_id = NULL,
                                        !.instructor_id = Entry("normal", "")]]
        ELSE [h EXCEPT !.ui = u]

Tk_clear_course_fields(h) ==
    LET u == [h.ui EXCEPT !.course_id = EntryDelete(@)]
    IN  IF u.edit_mode = "course"
        THEN [h EXCEPT !.ui = [u EXCEPT !.edit_mode = NULL,
                                        !.current_edit_id = NULL,
                                        !.course_id = Entry("normal", "")]]
        ELSE [h EXCEPT !.ui = u]

\* The last calls of the add handlers.
Tk_student_done(h) == Tk_update_display(Tk_clear_student_fields(h))

Tk_instructor_done(h) == Tk_update_display(Tk_clear_instructor_fields(h))

Tk_course_done(h) ==
    Tk_update_display(
        Tk_update_instructor_courses_listbox(
            Tk_update_student_courses_listbox(Tk_clear_course_fields(h))))

\* The branch add_student takes for the id it reads.
StudentPath(h, student_id) ==
    IF h.ui.edit_mode = "student" /\ h.ui.current_edit_id = student_id
    THEN "update" ELSE "add"

\* SchoolManagementSystem.add_student: age is the text of the age entry,
\* typed what the user typed into the id entry, selected the courses of the
\* selected listbox rows.
Tk_add_student(h, name, age, email, typed, selected) ==
    LET student_id == EntryGet(h.ui.student_id, typed)
        path == StudentPath(h, student_id)
        n == ParseInt(age)
    IN  IF ~n.ok
        THEN Ended(h, "error", path, DictGet(h.students, student_id))
        ELSE IF path = "update"
        THEN LET s == DictGet(h.students, student_id)
             IN  IF s = None
                 THEN Ended(Raise(h, "KeyError"), "escaped", path, None)
                 ELSE
                 LET h1 == Student_set_email(
                               [h EXCEPT !.student[s].name = name,
                                         !.student[s].age = PyInt(n.v)],
                               s, email)
                     h2 == IF h1.exc # "none" THEN h1
                           ELSE UnregisterAll(
                                    h1, s, h1.student[s].registered_courses, 1)
                     h3 == RegisterAll(h2, s, selected, 1)
                     h4 == [h3 EXCEPT !.ui.edit_mode = NULL,
                                      !.ui.current_edit_id = NULL,
                                      !.ui.student_id = Entry("normal", "")]
                 IN  IF h3.exc # "none" THEN EndedAfterTry(h3, path, s)
                     ELSE Ended(Tk_student_done(h4), "success", path,
                                s)
        ELSE IF student_id \in DictKeys(h.students)
        THEN Ended(h, "error", path, None)
        ELSE LET h1 == Student_init(h, name, PyInt(n.v), email, student_id)
                 s  == Len(h1.student)
                 h2 == RegisterAll(h1, s, selected, 1)
                 h3 == IF h2.exc # "none" THEN h2
                       ELSE DataManager_add_student(h2, s)
             IN  IF h3.exc # "none" THEN EndedAfterTry(h3, path, None)
                 ELSE Ended(Tk_student_done(h3), "success", path, s)

InstructorPath(h, instructor_id) ==
    IF h.ui.edit_mode = "instructor" /\ h.ui.current_edit_id = instructor_id
    THEN "update" ELSE "add"

\* SchoolManagementSystem.add_instructor.
Tk_add_instructor(h, name, age, email, typed, selected) ==
    LET instructor_id == EntryGet(h.ui.instructor_id, typed)
        path == InstructorPath(h, instructor_id)
        n == ParseInt(age)
    IN  IF ~n.ok
        THEN Ended(h, "error", path, DictGet(h.instructors, instructor_id))
        ELSE IF path = "update"
        THEN LET i == DictGet(h.instructors, instructor_id)
             IN  IF i = None
                 THEN Ended(Raise(h, "KeyError"), "escaped", path, None)
                 ELSE
                 LET h1 == Instructor_set_email(
                               [h EXCEPT !.instructor[i].name = name,
                                         !.instructor[i].age = PyInt(n.v)],
                               i, email)
                     h2 == IF h1.exc # "none" THEN h1
                           ELSE UnassignAll(
                                    h1, i, h1.instructor[i].assigned_courses, 1)
                     h3 == AssignAll(h2, i, selected, 1)
                     h4 == [h3 EXCEPT !.ui.edit_mode = NULL,
                                      !.ui.current_edit_id = NULL,
                                      !.ui.instructor_id = Entry("normal", "")]
                 IN  IF h3.exc # "none" THEN EndedAfterTry(h3, path, i)
                     ELSE Ended(Tk_instructor_done(h4), "success",
                                path, i)
        ELSE IF instructor_id \in DictKeys(h.instructors)
        THEN Ended(h, "error", path, None)
        ELSE LET h1 == Instructor_init(h, name, PyInt(n.v), email,
                                       instructor_id)
                 i  == Len(h1.instructor)
                 h2 == AssignAll(h1, i, selected, 1)
                 h3 == IF h2.exc # "none" THEN h2
                       ELSE DataManager_add_instructor(h2, i)
             IN  IF h3.exc # "none" THEN EndedAfterTry(h3, path, None)
                 ELSE Ended(Tk_instructor_done(h3), "success", path, i)

\* SchoolManagementSystem.add_course: no try, every exception leaves it.
Tk_add_course(h, course_name, typed) ==
    LET course_id == EntryGet(h.ui.course_id, typed)
    IN  IF h.ui.edit_mode = "course" /\ h.ui.current_edit_id = course_id
        THEN LET c == DictGet(h.courses, course_id)
             IN  IF c = None
                 THEN Ended(Raise(h, "KeyError"), "escaped", "update", None)
                 ELSE Ended(Tk_course_done(
                                [h EXCEPT !.course[c].course_name = course_name,
                                          !.ui.edit_mode = NULL,
                                          !.ui.current_edit_id = NULL,
                                          !.ui.course_id = Entry("normal", "")]),
                            "success", "update", c)
        ELSE IF course_id \in DictKeys(h.courses)
        THEN Ended(h, "error", "add", None)
        ELSE LET h1 == Course_init(h, course_id, course_name, None)
                 c  == Len(h1.course)
                 h2 == DataManager_add_course(h1, c)
             IN  IF h2.exc # "none" THEN Ended(h2, "escaped", "add", None)
                 ELSE Ended(Tk_course_done(h2), "success", "add", c)

\* edit_student / edit_instructor / edit_course, called by edit_record for
\* the selected row: the id entry takes the id and is disabled, the form
\* enters edit mode.
Tk_edit_student(h, student_id) ==
    LET s == DictGet(h.students, student_id)
    IN  IF s = None THEN h
        ELSE [Tk_update_student_courses_listbox(h)
                  EXCEPT !.ui.student_id =
                             IF @.state = "disabled" THEN @
                             ELSE Entry("disabled", h.student[s].student_id),
                         !.ui.edit_mode = "student",
                         !.ui.current_edit_id = student_id]

Tk_edit_instructor(h, instructor_id) ==
    LET i == DictGet(h.instructors, instructor_id)
    IN  IF i = None THEN h
        ELSE [Tk_update_instructor_courses_listbox(h)
                  EXCEPT !.ui.instructor_id =
                             IF @.state = "disabled" THEN @
                             ELSE Entry("disabled",
                                        h.instructor[i].instructor_id),
                         !.ui.edit_mode = "instructor",
                         !.ui.current_edit_id = instructor_id]

Tk_edit_course(h, course_id) ==
    LET c == DictGet(h.courses, course_id)
    IN  IF c = None THEN h
        ELSE [h EXCEPT !.ui.course_id =
                           IF @.state = "disabled" THEN @
                           ELSE Entry("disabled", h.course[c].course_id),
                       !.ui.edit_mode = "course",
                       !.ui.current_edit_id = course_id]

\* delete_record on the treeview row <<record_type, record_id>>, confirmed
\* by the user.
Tk_delete_record(h, record_type, record_id) ==
    LET h1 == CASE record_type = "Student" ->
                       DataManager_delete_student(h, record_id)
                [] record_type = "Instructor" ->
                       DataManager_delete_instructor(h, record_id)
                [] record_type = "Course" ->
                       DataManager_delete_course(h, record_id)
    IN  IF h1.exc # "none" THEN Ended(h1, "escaped", record_type, None)
        ELSE Ended(Tk_update_display(h1), "success", record_type, None)

\* SchoolManagementSystem.load_data on a file the user picked: no try, and
\* the refreshes come after the load.
Tk_load_data(h, f) ==
    LET h1 == DataManager_load_data(h, f)
    IN  IF h1.exc # "none" THEN Ended(h1, "escaped", "load", None)
        ELSE Ended(Tk_update_display(
                       Tk_update_instructor_courses_listbox(
                           Tk_update_student_courses_listbox(h1))),
                   "success", "load", None)

StudentRefs == 1..Len(studentObj)
InstructorRefs == 1..Len(instructorObj)
CourseRefs == 1..Len(courseObj)

\* ------------------------------------------------ main_PyQt.py
\* school.db after create_db on a new file: the students and instructors
\* tables without rows, and sqlite_sequence, which holds for each
\* AUTOINCREMENT table the largest id ever given (0 before the first
\* insert). The rows of a table are kept in the order of their id, the
\* order "SELECT *" returns them in.
create_db ==
    [students |-> <<>>, instructors |-> <<>>,
     seq |-> [students |-> 0, instructors |-> 0]]

\* The characters of the emails typed here that [a-zA-Z0-9] matches.
QtAlnum == {"a", "b", "c"} \cup DOMAIN DigitVal

\* re.match(r'^[a-zA-Z0-9_.+-]+@[a-zA-Z0-9-]+\.[a-zA-Z0-9-.]+$', email) on
\* the first n characters.
QtMatchesUpTo(email, n) ==
    \E a \in 2..n : \E d \in (a + 2)..(n - 1) :
        /\ email[a] = "@"
        /\ email[d] = "."
        /\ \A k \in 1..(a - 1) : email[k] \in QtAlnum \cup {"_", ".", "+", "-"}
        /\ \A k \in (a + 1)..(d - 1) : email[k] \in QtAlnum \cup {"-"}
        /\ \A k \in (d + 1)..n : email[k] \in QtAlnum \cup {"-", "."}

Qt_validate_email(email) ==
    \/ QtMatchesUpTo(email, Len(email))
    \/ Len(email) > 0 /\ email[Len(email)] = "\n"
                      /\ QtMatchesUpTo(email, Len(email) - 1)

\* person.__init__ of models_PyQt.py with an int age: TRUE when it raises
\* ValueError.
Qt_person_init(name, age, email) ==
    \/ name = ""
    \/ age < 0
    \/ ~Qt_validate_email(email)

\* student(...) and instructor(...) of models_PyQt.py: TRUE when the
\* constructor raises ValueError.
Qt_student_init(name, age, email, student_id) ==
    Qt_person_init(name, age, email) \/ student_id = ""

Qt_instructor_init(name, age, email, instructor_id) ==
    Qt_person_init(name, age, email) \/ instructor_id = ""

\* INSERT INTO students (name, age, email, student_id): the new row's id is
\* one more than the largest id the table ever gave.
add_student_db(db, name, age, email, student_id) ==
    LET id == db.seq.students + 1
    IN  [db EXCEPT !.students = Append(@, [id |-> id, name |-> name,
                                           age |-> age, email |-> email,
                                           student_id |-> student_id]),
                   !.seq.students = id]

add_instructor_db(db, name, age, email, instructor_id) ==
    LET id == db.seq.instructors + 1
    IN  [db EXCEPT !.instructors = Append(@, [id |-> id, name |-> name,
                                              age |-> age, email |-> email,
                                              instructor_id |-> instructor_id]),
                   !.seq.instructors = id]

\* SELECT * FROM students, one student object per row: the row's own id is
\* not kept in the object.
get_students_db(db) ==
    [k \in 1..Len(db.students) |->
        [name |-> db.students[k].name, age |-> db.students[k].age,
         email |-> db.students[k].email,
         student_id |-> db.students[k].student_id]]

get_instructors_db(db) ==
    [k \in 1..Len(db.instructors) |->
        [name |-> db.instructors[k].name, age |-> db.instructors[k].age,
         email |-> db.instructors[k].email,
         instructor_id |-> db.instructors[k].instructor_id]]

\* DELETE FROM students WHERE id=?
delete_student_db(db, id) ==
    [db EXCEPT !.students = SelectSeq(@, LAMBDA row : row.id # id)]

delete_instructor_db(db, id) ==
    [db EXCEPT !.instructors = SelectSeq(@, LAMBDA row : row.id # id)]

\* SchoolManagementSystem.add_student of main_PyQt.py: int() of the age
\* text and the constructor raise ValueError, which ends in a warning box;
\* otherwise the row is inserted and the table refreshed.
Qt_add_student(db, name, age, email, student_id) ==
    LET n == ParseInt(age)
    IN  IF ~n.ok \/ Qt_student_init(name, n.v, email, student_id)
        THEN [db |-> db, outcome |-> "warning"]
        ELSE [db |-> add_student_db(db, name, n.v, email, student_id),
              outcome |-> "added"]

Qt_add_instructor(db, name, age, email, instructor_id) ==
    LET n == ParseInt(age)
    IN  IF ~n.ok \/ Qt_instructor_init(name, n.v, email, instructor_id)
        THEN [db |-> db, outcome |-> "warning"]
        ELSE [db |-> add_instructor_db(db, name, n.v, email, instructor_id),
              outcome |-> "added"]

\* SchoolManagementSystem.delete_student: currentRow() is -1 with no row
\* selected; otherwise the key deleted is the row number plus one.
Qt_delete_student(db, selected_row) ==
    IF selected_row = -1
    THEN [db |-> db, outcome |-> "warning"]
    ELSE [db |-> delete_student_db(db, selected_row + 1),
          outcome |-> "deleted"]

Qt_delete_instructor(db, selected_row) ==
    IF selected_row = -1
    THEN [db |-> db, outcome |-> "warning"]
    ELSE [db |-> delete_instructor_db(db, selected_row + 1),
          outcome |-> "deleted"]

NumObjects == Len(studentObj) + Len(instructorObj) + Len(courseObj)

NoCall == [op |-> "init", obj |-> None, obj2 |-> None, id |-> NULL,
           exc |-> "none", ok |-> TRUE, log |-> <<>>, before |-> <<>>,
           args |-> <<>>]

\* The state a call leaves, and the record of the call; snap is <<>> or
\* <<the program state before the call>>, args is <<>> or <<a record of the
\* values the call was given or returned>>.
CommitArgs(h, op, a, b, id, snap, args) ==
    /\ studentObj' = h.student
    /\ instructorObj' = h.instructor
    /\ courseObj' = h.course
    /\ students' = h.students
    /\ instructors' = h.instructors
    /\ courses' = h.courses
    /\ tbl_students' = h.tbl_students
    /\ tbl_instructors' = h.tbl_instructors
    /\ tbl_courses' = h.tbl_courses
    /\ tbl_registrations' = h.tbl_registrations
    /\ ui' = h.ui
    /\ last' = [op |-> op, obj |-> a, obj2 |-> b, id |-> id,
                exc |-> h.exc, ok |-> h.ok, log |-> h.log, before |-> snap,
                args |-> args]

CommitSnap(h, op, a, b, id, snap) == CommitArgs(h, op, a, b, id, snap, <<>>)

Commit(h, op, a, b, id) == CommitSnap(h, op, a, b, id, <<>>)

new_student ==
    /\ NumObjects < MaxObjects
    /\ \E age \in Ages, email \in Emails, id \in StudentIds :
           Commit(Student_init(Heap, NameOf[Len(studentObj) + 1], age, email,
                               id),
                  "Student", Len(studentObj) + 1, None, id)
    /\ UNCHANGED <<file, qt>>

new_instructor ==
    /\ NumObjects < MaxObjects
    /\ \E age \in Ages, email \in Emails, id \in InstructorIds :
           Commit(Instructor_init(Heap, NameOf[Len(instructorObj) + 1], age,
                                  email, id),
                  "Instructor", Len(instructorObj) + 1, None, id)
    /\ UNCHANGED <<file, qt>>

\* Course(course_id, course_name, instructor)
\* Student(name, age, email, id) on any arguments.
construct_student ==
    /\ NumObjects < MaxObjects
    /\ \E name \in AnyNames, age \in AnyAges, email \in AnyEmails :
           CommitArgs(Student_init(Heap, name, age, email, "S1"),
                      "Student", Len(studentObj) + 1, None, "S1", <<>>,
                      <<[name |-> name, age |-> age, email |-> email]>>)
    /\ UNCHANGED <<file, qt>>

\* Instructor(name, age, email, id) on any arguments.
construct_instructor ==
    /\ NumObjects < MaxObjects
    /\ \E name \in AnyNames, age \in AnyAges, email \in AnyEmails :
           CommitArgs(Instructor_init(Heap, name, age, email, "I1"),
                      "Instructor", Len(instructorObj) + 1, None, "I1", <<>>,
                      <<[name |-> name, age |-> age, email |-> email]>>)
    /\ UNCHANGED <<file, qt>>

\* Student.from_dict(s.to_dict()): the copy is returned to the caller and
\* kept nowhere in the program.
student_round_trip ==
    /\ \E s \in StudentRefs :
           LET h1 == Student_from_dict(Heap, Student_to_dict(Heap, s))
           IN  CommitArgs(Raise(Heap, h1.exc), "Student.from_dict", s, None,
                          NULL, <<>>,
                          IF h1.exc = "none"
                          THEN <<h1.student[Len(h1.student)]>> ELSE <<>>)
    /\ UNCHANGED <<file, qt>>

instructor_round_trip ==
    /\ \E i \in InstructorRefs :
           LET h1 == Instructor_from_dict(Heap, Instructor_to_dict(Heap, i))
           IN  CommitArgs(Raise(Heap, h1.exc), "Instructor.from_dict", i, None,
                          NULL, <<>>,
                          IF h1.exc = "none"
                          THEN <<h1.instructor[Len(h1.instructor)]>>
                          ELSE <<>>)
    /\ UNCHANGED <<file, qt>>

course_round_trip ==
    /\ \E c \in CourseRefs :
           LET h1 == Course_from_dict(Heap, Course_to_dict(Heap, c))
           IN  CommitArgs(Raise(Heap, h1.exc), "Course.from_dict", c, None,
                          NULL, <<>>,
                          IF h1.exc = "none"
                          THEN <<h1.course[Len(h1.course)]>> ELSE <<>>)
    /\ UNCHANGED <<file, qt>>

new_course_with ==
    /\ NumObjects < MaxObjects
    /\ \E id \in CourseIds, instructor \in InstructorRefs :
           Commit(Course_init(Heap, id, CourseNameOf[Len(courseObj) + 1],
                              instructor),
                  "Course", Len(courseObj) + 1, instructor, id)
    /\ UNCHANGED <<file, qt>>

\* Course(course_id, course_name)
new_course ==
    /\ NumObjects < MaxObjects
    /\ \E id \in CourseIds :
           Commit(Course_init(Heap, id, CourseNameOf[Len(courseObj) + 1], None),
                  "Course", Len(courseObj) + 1, None, id)
    /\ UNCHANGED <<file, qt>>

register_course ==
    /\ \E s \in StudentRefs, c \in CourseRefs :
           Commit(Student_register_course(Heap, s, c),
                  "register_course", s, c, NULL)
    /\ UNCHANGED <<file, qt>>

unregister_course ==
    /\ \E s \in StudentRefs, c \in CourseRefs :
           Commit(Student_unregister_course(Heap, s, c),
                  "unregister_course", s, c, NULL)
    /\ UNCHANGED <<file, qt>>

course_add_student ==
    /\ \E c \in CourseRefs, s \in StudentRefs :
           Commit(Course_add_student(Heap, c, s),
                  "Course.add_student", c, s, NULL)
    /\ UNCHANGED <<file, qt>>

\* S.register_course(C) and then S.unregister_course(C), as one step that
\* keeps the state before the two calls.
register_then_unregister ==
    /\ \E s \in StudentRefs, c \in CourseRefs :
           LET h1 == Student_register_course(Heap, s, c)
               h2 == IF h1.exc = "none"
                     THEN Student_unregister_course(h1, s, c)
                     ELSE h1
           IN  CommitSnap(h2, "register_then_unregister", s, c, NULL,
                          <<Heap>>)
    /\ UNCHANGED <<file, qt>>

assign_course ==
    /\ \E i \in InstructorRefs, c \in CourseRefs :
           Commit(Instructor_assign_course(Heap, i, c),
                  "assign_course", i, c, NULL)
    /\ UNCHANGED <<file, qt>>

unassign_course ==
    /\ \E i \in InstructorRefs, c \in CourseRefs :
           Commit(Instructor_unassign_course(Heap, i, c),
                  "unassign_course", i, c, NULL)
    /\ UNCHANGED <<file, qt>>

set_instructor ==
    /\ \E c \in CourseRefs, i \in InstructorRefs :
           Commit(Course_set_instructor(Heap, c, i),
                  "set_instructor", c, i, NULL)
    /\ UNCHANGED <<file, qt>>

add_student ==
    /\ \E s \in StudentRefs :
           Commit(DataManager_add_student(Heap, s),
                  "add_student", s, None, studentObj[s].student_id)
    /\ UNCHANGED <<file, qt>>

add_instructor ==
    /\ \E i \in InstructorRefs :
           Commit(DataManager_add_instructor(Heap, i),
                  "add_instructor", i, None, instructorObj[i].instructor_id)
    /\ UNCHANGED <<file, qt>>

add_course ==
    /\ \E c \in CourseRefs :
           Commit(DataManager_add_course(Heap, c),
                  "add_course", c, None, courseObj[c].course_id)
    /\ UNCHANGED <<file, qt>>

\* obj records the entity the mirror held under the id before the call.
delete_student ==
    /\ \E id \in StudentIds :
           Commit(DataManager_delete_student(Heap, id),
                  "delete_student", DictGet(students, id), None, id)
    /\ UNCHANGED <<file, qt>>

delete_instructor ==
    /\ \E id \in InstructorIds :
           Commit(DataManager_delete_instructor(Heap, id),
                  "delete_instructor", DictGet(instructors, id), None, id)
    /\ UNCHANGED <<file, qt>>

delete_course ==
    /\ \E id \in CourseIds :
           Commit(DataManager_delete_course(Heap, id),
                  "delete_course", DictGet(courses, id), None, id)
    /\ UNCHANGED <<file, qt>>

save_data ==
    /\ file' = <<DataManager_save_data(Heap)>>
    /\ last' = [NoCall EXCEPT !.op = "save_data"]
    /\ UNCHANGED <<heapVars, mirrorVars, dbVars, ui, qt>>

\* create_tables called again on the store the DataManager works on.
create_tables ==
    /\ CommitSnap(DataManager_create_tables(Heap), "create_tables", None, None,
                  NULL, <<Heap>>)
    /\ UNCHANGED <<file, qt>>

\* load_data constructs one object per record of the document.
load_data ==
    /\ Len(file) > 0
    /\ NumObjects + Len(file[1].students) + Len(file[1].instructors)
           + Len(file[1].courses) <= MaxObjects
    /\ Commit(DataManager_load_data(Heap, file), "load_data", None, None, NULL)
    /\ UNCHANGED <<file, qt>>

\* The handlers of the tkinter front-end. A handler that would construct an
\* object beyond the bound is not taken.
Fits(h) == Len(h.student) + Len(h.instructor) + Len(h.course) <= MaxObjects

\* The state before the call is kept for an update that was rejected, the
\* courses the handler was given for an update.
CommitSelected(r, op, id, selected) ==
    /\ Fits(r.h)
    /\ CommitArgs(r.h, op, r.obj, None, id,
                  IF r.path = "update" /\ r.outcome = "error"
                  THEN <<Heap>> ELSE <<>>,
                  <<[outcome |-> r.outcome, path |-> r.path,
                     selected |-> IF r.path = "update" THEN selected
                                  ELSE <<>>]>>)
    /\ UNCHANGED <<file, qt>>

CommitHandler(r, op, id) == CommitSelected(r, op, id, <<>>)

tk_add_student_of(names, ages) ==
    \E name \in names, age \in ages, email \in AnyEmails,
       typed \in TkStudentIds, rows \in SUBSET (1..Len(ui.student_courses)) :
        LET selected == SelectedCourses(Heap, ui.student_courses, rows, 1)
        IN  CommitSelected(Tk_add_student(Heap, name, age, email, typed,
                                          selected),
                           "tk.add_student", EntryGet(ui.student_id, typed),
                           selected)

tk_add_student == tk_add_student_of(TkNames, TkAges)

tk_add_student_few == tk_add_student_of(FewNames, FewAges)

tk_add_instructor_of(names, ages) ==
    \E name \in names, age \in ages, email \in AnyEmails,
       typed \in TkInstructorIds,
       rows \in SUBSET (1..Len(ui.instructor_courses)) :
        CommitHandler(Tk_add_instructor(Heap, name, age, email, typed,
                                        SelectedCourses(Heap,
                                                        ui.instructor_courses,
                                                        rows, 1)),
                      "tk.add_instructor", EntryGet(ui.instructor_id, typed))

tk_add_instructor == tk_add_instructor_of(TkNames, TkAges)

tk_add_instructor_few == tk_add_instructor_of(FewNames, FewAges)

tk_add_course_of(ids) ==
    \E course_name \in TkCourseNames, typed \in ids :
        CommitHandler(Tk_add_course(Heap, course_name, typed),
                      "tk.add_course", EntryGet(ui.course_id, typed))

tk_add_course == tk_add_course_of(TkCourseIds)

tk_add_course_any == tk_add_course_of(CourseIds)

\* edit_record on the selected treeview row.
tk_edit_student ==
    /\ \E id \in {row[2] : row \in {r \in ui.tree : r[1] = "Student"}} :
           Commit(Tk_edit_student(Heap, id), "tk.edit_student",
                  DictGet(students, id), None, id)
    /\ UNCHANGED <<file, qt>>

tk_edit_instructor ==
    /\ \E id \in {row[2] : row \in {r \in ui.tree : r[1] = "Instructor"}} :
           Commit(Tk_edit_instructor(Heap, id), "tk.edit_instructor",
                  DictGet(instructors, id), None, id)
    /\ UNCHANGED <<file, qt>>

tk_edit_course ==
    /\ \E id \in {row[2] : row \in {r \in ui.tree : r[1] = "Course"}} :
           Commit(Tk_edit_course(Heap, id), "tk.edit_course",
                  DictGet(courses, id), None, id)
    /\ UNCHANGED <<file, qt>>

tk_delete_record ==
    \E row \in ui.tree :
        CommitHandler(Tk_delete_record(Heap, row[1], row[2]),
                      "tk.delete_record", row[2])

\* SchoolManagementSystem.save_data with a file name chosen.
tk_save_data ==
    /\ file' = <<DataManager_save_data(Heap)>>
    /\ CommitArgs(Heap, "tk.save_data", None, None, NULL, <<>>,
                  <<[outcome |-> "success", path |-> "save",
                     selected |-> <<>>]>>)
    /\ UNCHANGED qt

tk_load_data ==
    /\ Len(file) > 0
    /\ CommitHandler(Tk_load_data(Heap, file), "tk.load_data", NULL)

\* ------------------------------------------------ the PyQt front-end
\* The state a handler of the PyQt front-end leaves: it works on school.db
\* alone. The record of the call keeps the database the handler found and
\* what the user typed or selected.
QtCommit(db, op, args) ==
    /\ qt' = db
    /\ last' = [NoCall EXCEPT !.op = op, !.before = <<qt>>, !.args = <<args>>]
    /\ UNCHANGED <<heapVars, mirrorVars, dbVars, file, ui>>

\* The Add Student button; the number of rows ever inserted is bounded.
qt_add_student ==
    /\ qt.seq.students + qt.seq.instructors < MaxObjects
    /\ \E name \in QtNames, age \in FewAges, email \in QtEmails,
          student_id \in StudentIds :
           LET r == Qt_add_student(qt, name, age, email, student_id)
           IN  QtCommit(r.db, "qt.add_student",
                        [outcome |-> r.outcome, selected_row |-> -1,
                         id |-> student_id])

qt_add_instructor ==
    /\ qt.seq.students + qt.seq.instructors < MaxObjects
    /\ \E name \in QtNames, age \in FewAges, email \in QtEmails,
          instructor_id \in InstructorIds :
           LET r == Qt_add_instructor(qt, name, age, email, instructor_id)
           IN  QtCommit(r.db, "qt.add_instructor",
                        [outcome |-> r.outcome, selected_row |-> -1,
                         id |-> instructor_id])

\* The Delete Student button with no row or one of the displayed rows
\* selected; the table widget shows what refresh_student_table last read,
\* which is the table as it is now.
qt_delete_student ==
    \E selected_row \in -1..(Len(get_students_db(qt)) - 1) :
        LET r == Qt_delete_student(qt, selected_row)
        IN  QtCommit(r.db, "qt.delete_student",
                     [outcome |-> r.outcome, selected_row |-> selected_row,
                      id |-> NULL])

qt_delete_instructor ==
    \E selected_row \in -1..(Len(get_instructors_db(qt)) - 1) :
        LET r == Qt_delete_instructor(qt, selected_row)
        IN  QtCommit(r.db, "qt.delete_instructor",
                     [outcome |-> r.outcome, selected_row |-> selected_row,
                      id |-> NULL])

\* A program just started on a store that holds nothing.
FreshStore ==
    [student |-> <<>>, instructor |-> <<>>, course |-> <<>>,
     students |-> EmptyDict, instructors |-> EmptyDict, courses |-> EmptyDict,
     tbl_students |-> EmptyTable, tbl_instructors |-> EmptyTable,
     tbl_courses |-> EmptyTable, tbl_registrations |-> {},
     ui |-> NoEdit, exc |-> "none", ok |-> TRUE, log |-> <<>>]

\* SchoolManagementSystem.__init__ when the program is started again: the
\* objects of the run before are gone, DataManager() opens
\* school_management.db with the rows it holds and starts with empty dicts,
\* and the form is new.
Tk_init(h) ==
    [FreshStore EXCEPT !.tbl_students = h.tbl_students,
                       !.tbl_instructors = h.tbl_instructors,
                       !.tbl_courses = h.tbl_courses,
                       !.tbl_registrations = h.tbl_registrations]

tk_restart ==
    /\ Commit(Tk_init(Heap), "tk.restart", None, None, NULL)
    /\ UNCHANGED <<file, qt>>

\* save_data(filename) to a file of its own, then load_data(filename) by a
\* second DataManager on a fresh store; the state the second manager ends
\* in, what it raised and the order it worked in are handed to the caller,
\* and the first manager goes on unchanged.
export_import ==
    /\ LET r == DataManager_load_data(FreshStore,
                                      <<DataManager_save_data(Heap)>>)
       IN  CommitArgs([Heap EXCEPT !.exc = r.exc, !.log = r.log],
                      "export_import", None, None, NULL, <<>>, <<r>>)
    /\ UNCHANGED <<file, qt>>

\* -------------------------------------------------------- specifications
\* A DataManager on an empty store, no object constructed yet.
Init ==
    /\ studentObj = <<>>
    /\ instructorObj = <<>>
    /\ courseObj = <<>>
    /\ students = EmptyDict
    /\ instructors = EmptyDict
    /\ courses = EmptyDict
    /\ tbl_students = EmptyTable
    /\ tbl_instructors = EmptyTable
    /\ tbl_courses = EmptyTable
    /\ tbl_registrations = {}
    /\ file = <<>>
    /\ ui = NoEdit
    /\ qt = create_db
    /\ last = NoCall

\* The DataManager's add and delete operations on entities a caller
\* constructs and assigns, called in any order.
Next ==
    \/ new_student
    \/ new_instructor
    \/ new_course
    \/ assign_course
    \/ add_student
    \/ add_instructor
    \/ add_course
    \/ delete_student
    \/ delete_instructor
    \/ delete_course

Spec == Init /\ [][Next]_vars

\* Students and courses registered in memory, added to and deleted from the
\* DataManager.
NextEnrol ==
    \/ new_student
    \/ new_course
    \/ register_course
    \/ unregister_course
    \/ add_student
    \/ add_course
    \/ delete_student
    \/ delete_course

SpecEnrol == Init /\ [][NextEnrol]_vars

\* Students and courses, and the three methods that register.
NextReg ==
    \/ new_student
    \/ new_course
    \/ register_course
    \/ unregister_course
    \/ course_add_student

SpecReg == Init /\ [][NextReg]_vars

\* The object layer of registrations with the register/unregister round trip.
NextRoundTrip ==
    \/ new_student
    \/ new_course
    \/ register_course
    \/ unregister_course
    \/ course_add_student
    \/ register_then_unregister

SpecRoundTrip == Init /\ [][NextRoundTrip]_vars

\* Instructors and courses created without an instructor, and the three
\* methods that assign.
NextAssign ==
    \/ new_instructor
    \/ new_course
    \/ assign_course
    \/ unassign_course
    \/ set_instructor

SpecAssign == Init /\ [][NextAssign]_vars

\* Instructors and courses driven by assign_course and unassign_course only.
NextAssignOnly ==
    \/ new_instructor
    \/ new_course
    \/ assign_course
    \/ unassign_course

SpecAssignOnly == Init /\ [][NextAssignOnly]_vars

\* The assignment layer with courses constructed with an instructor.
NextAssignCtor ==
    \/ new_instructor
    \/ new_course
    \/ new_course_with
    \/ assign_course
    \/ unassign_course
    \/ set_instructor

SpecAssignCtor == Init /\ [][NextAssignCtor]_vars

\* Construction on any arguments, and the dictionary round trip.
NextPerson ==
    \/ construct_student
    \/ construct_instructor
    \/ new_course
    \/ student_round_trip
    \/ instructor_round_trip
    \/ course_round_trip

SpecPerson == Init /\ [][NextPerson]_vars

\* The DataManager with export and import.
NextSnapshot ==
    \/ new_student
    \/ new_instructor
    \/ new_course
    \/ register_course
    \/ assign_course
    \/ add_student
    \/ add_instructor
    \/ add_course
    \/ delete_student
    \/ delete_instructor
    \/ delete_course
    \/ save_data
    \/ load_data

SpecSnapshot == Init /\ [][NextSnapshot]_vars

\* Entities stored through the DataManager, exported and imported again.
NextExport ==
    \/ new_student
    \/ new_instructor
    \/ new_course
    \/ register_course
    \/ assign_course
    \/ add_student
    \/ add_instructor
    \/ add_course
    \/ export_import

SpecExport == Init /\ [][NextExport]_vars

\* Students and instructors stored, deleted, saved and loaded again into the
\* same DataManager, whose store may hold rows already.
NextImport ==
    \/ new_student
    \/ new_instructor
    \/ add_student
    \/ add_instructor
    \/ delete_student
    \/ delete_instructor
    \/ save_data
    \/ load_data

SpecImport == Init /\ [][NextImport]_vars

\* The tkinter forms: add, edit and update of students, instructors and
\* courses.
NextTk ==
    \/ tk_add_student
    \/ tk_add_instructor
    \/ tk_add_course
    \/ tk_edit_student
    \/ tk_edit_instructor
    \/ tk_edit_course

SpecTk == Init /\ [][NextTk]_vars

\* Every handler of the tkinter front-end.
NextTkAll ==
    \/ tk_add_student_few
    \/ tk_add_instructor_few
    \/ tk_add_course
    \/ tk_edit_student
    \/ tk_edit_instructor
    \/ tk_edit_course
    \/ tk_delete_record
    \/ tk_save_data
    \/ tk_load_data

SpecTkAll == Init /\ [][NextTkAll]_vars

\* The student and instructor tabs of the PyQt front-end: rows added and
\* deleted in any order.
NextQt ==
    \/ qt_add_student
    \/ qt_add_instructor
    \/ qt_delete_student
    \/ qt_delete_instructor

SpecQt == Init /\ [][NextQt]_vars

\* Rows written to the three entity tables, and create_tables called again
\* at any point.
NextCreate ==
    \/ new_student
    \/ new_instructor
    \/ new_course
    \/ add_student
    \/ add_instructor
    \/ add_course
    \/ create_tables

SpecCreate == Init /\ [][NextCreate]_vars

\* Courses constructed with or without an instructor, students registered
\* in memory, entities added to the DataManager and saved at any point.
NextSave ==
    \/ new_student
    \/ new_instructor
    \/ new_course
    \/ new_course_with
    \/ register_course
    \/ add_student
    \/ add_instructor
    \/ add_course
    \/ save_data

SpecSave == Init /\ [][NextSave]_vars

\* The add handlers of the tkinter front-end, and the program closed and
\* started again on the same database file.
NextTkAdd ==
    \/ tk_add_student_few
    \/ tk_add_instructor_few
    \/ tk_add_course
    \/ tk_restart

SpecTkAdd == Init /\ [][NextTkAdd]_vars

\* The student and course forms of the tkinter front-end: students and
\* courses added, a student edited and updated with any selection of the
\* listed courses, records deleted.
NextTkUpdate ==
    \/ tk_add_student_few
    \/ tk_add_course_any
    \/ tk_edit_student
    \/ tk_delete_record

SpecTkUpdate == Init /\ [][NextTkUpdate]_vars

\* ---------------------------------------------------------------- claims
Registered(s, c) == Contains(studentObj[s].registered_courses, c)
Enrolled(c, s) == Contains(courseObj[c].enrolled_students, s)
MirrorStudents == {students[k].val : k \in 1..Len(students)}
MirrorInstructors == {instructors[k].val : k \in 1..Len(instructors)}
MirrorCourses == {courses[k].val : k \in 1..Len(courses)}

\* C1: after any sequence of register_course, unregister_course and
\* Course.add_student calls on students and courses that start with empty
\* lists, C is in S.registered_courses exactly when S is in
\* C.enrolled_students, for every student S and course C.
C1_ReferentialSymmetry ==
    \A s \in StudentRefs, c \in CourseRefs : Registered(s, c) <=> Enrolled(c, s)

\* A pair has just been unregistered while another pair is still registered.
C1_Witness ==
    /\ last.op = "unregister_course"
    /\ ~Registered(last.obj, last.obj2)
    /\ \E s \in StudentRefs, c \in CourseRefs : Registered(s, c) /\ Enrolled(c, s)

\* C2: after any sequence of assign_course, unassign_course and
\* set_instructor calls on courses created without an instructor,
\* C.instructor is I exactly when C is in I.assigned_courses.
C2_AssignmentSymmetry ==
    \A i \in InstructorRefs, c \in CourseRefs :
        (courseObj[c].instructor = i)
            <=> Contains(instructorObj[i].assigned_courses, c)

\* C3: add_student, add_instructor and add_course reject an entity whose id
\* is already in the mirror and in the table: the mirror still maps the id to
\* the first object, the mirror has the same size and the stored row is the
\* same.
C3_DuplicateAdd(op, mirror, mirrorAfter, tbl, tblAfter) ==
    (/\ last'.op = op
     /\ last'.id \in DictKeys(mirror)
     /\ last'.id \in DOMAIN tbl)
    => /\ ~last'.ok
       /\ DictGet(mirrorAfter, last'.id) = DictGet(mirror, last'.id)
       /\ Len(mirrorAfter) = Len(mirror)
       /\ last'.id \in DOMAIN tblAfter
       /\ tblAfter[last'.id] = tbl[last'.id]

C3_DuplicateAddRejected ==
    [][/\ C3_DuplicateAdd("add_student", students, students',
                          tbl_students, tbl_students')
       /\ C3_DuplicateAdd("add_instructor", instructors, instructors',
                          tbl_instructors, tbl_instructors')
       /\ C3_DuplicateAdd("add_course", courses, courses',
                          tbl_courses, tbl_courses')]_vars

\* A second course object with the id of a course of the mirror was offered
\* and turned down.
C3_Witness ==
    /\ last.op = "add_course"
    /\ ~last.ok
    /\ DictGet(courses, last.id) # None
    /\ DictGet(courses, last.id) # last.obj
    /\ tbl_courses[last.id].course_name # courseObj[last.obj].course_name

\* C4: when the INSERT of add_student, add_instructor or add_course fails
\* (duplicate primary key, or a course whose instructor id violates the
\* foreign key), no exception escapes and the mirror is as it was.
C4_FailedInsertLeavesMirror ==
    [][/\ (last'.op = "add_student" /\ ~last'.ok)
              => (last'.exc = "none" /\ students' = students)
       /\ (last'.op = "add_instructor" /\ ~last'.ok)
              => (last'.exc = "none" /\ instructors' = instructors)
       /\ (last'.op = "add_course" /\ ~last'.ok)
              => (last'.exc = "none" /\ courses' = courses)]_vars

\* A course whose instructor has no stored row was turned down by the
\* foreign key, its own id being free.
C4_Witness ==
    /\ last.op = "add_course"
    /\ ~last.ok
    /\ last.id \notin DOMAIN tbl_courses
    /\ last.id \notin DictKeys(courses)
    /\ courseObj[last.obj].instructor # None

\* C5: after any sequence of add, delete and load_data calls on a
\* DataManager opened on an empty store, the ids keyed in each mirror are the
\* primary keys of the corresponding table.
C5_MirrorKeysAreTableKeys ==
    /\ DictKeys(students) = DOMAIN tbl_students
    /\ DictKeys(instructors) = DOMAIN tbl_instructors
    /\ DictKeys(courses) = DOMAIN tbl_courses

\* C6: for a student S and a course C of the mirrors, S registered in C in
\* memory means the registrations table holds (S.student_id, C.course_id),
\* and the table holds no row for a pair not registered in memory.
C6_RegistrationsStored ==
    /\ \A s \in MirrorStudents, c \in MirrorCourses :
           Registered(s, c) =>
               <<studentObj[s].student_id, courseObj[c].course_id>>
                   \in tbl_registrations
    /\ \A r \in tbl_registrations :
           \E s \in MirrorStudents, c \in MirrorCourses :
               /\ Registered(s, c)
               /\ r = <<studentObj[s].student_id, courseObj[c].course_id>>

\* C7: after delete_instructor(id), every course of the mirror whose
\* instructor had that id has instructor None in memory and a NULL
\* instructor_id in its stored row, and is still in the mirror and the table.
C7_DeleteInstructorClearsCourses ==
    [][last'.op = "delete_instructor" =>
          \A k \in 1..Len(courses) :
              LET c == courses[k].val
              IN  (/\ courseObj[c].instructor # None
                   /\ instructorObj[courseObj[c].instructor].instructor_id
                          = last'.id)
                  => /\ courseObj'[c].instructor = None
                     /\ DictGet(courses', courses[k].key) = c
                     /\ courses[k].key \in DOMAIN tbl_courses'
                     /\ tbl_courses'[courses[k].key].instructor_id = NULL]_vars

\* C8: after delete_course(id) of a course C, no student of the mirror has C
\* in registered_courses, and no registrations row references C.
C8_DeleteCourseUnregisters ==
    (last.op = "delete_course" /\ last.obj # None) =>
        /\ \A s \in MirrorStudents : ~Registered(s, last.obj)
        /\ \A r \in tbl_registrations : r[2] # last.id

\* C9: after delete_student(id) of a student S, no course of the mirror has
\* S in enrolled_students, and no registrations row references S.
C9_DeleteStudentUnenrolls ==
    (last.op = "delete_student" /\ last.obj # None) =>
        /\ \A c \in MirrorCourses : ~Enrolled(c, last.obj)
        /\ \A r \in tbl_registrations : r[1] # last.id

\* C10: register_course either appends the course to the student's
\* registered_courses and the student to the course's enrolled_students, or
\* changes neither list; on a student already registered in the course it
\* changes nothing.
C10_RegisterBothOrNeither ==
    [][last'.op = "register_course" =>
          LET s  == last'.obj
              c  == last'.obj2
              rc == studentObj[s].registered_courses
              es == courseObj[c].enrolled_students
          IN  IF Contains(rc, c)
              THEN UNCHANGED heapVars
              ELSE \/ UNCHANGED heapVars
                   \/ /\ studentObj' = [studentObj EXCEPT
                              ![s].registered_courses = Append(rc, c)]
                      /\ courseObj' = [courseObj EXCEPT
                              ![c].enrolled_students = Append(es, s)]
                      /\ instructorObj' = instructorObj]_vars

\* register_course has just put a second course on a student's list.
C10_Witness ==
    /\ last.op = "register_course"
    /\ last.exc = "none"
    /\ Len(studentObj[last.obj].registered_courses) = 2
    /\ studentObj[last.obj].registered_courses[2] = last.obj2
    /\ Enrolled(last.obj2, last.obj)

\* C11 (as stated): in any reachable state, S.register_course(C) followed by
\* S.unregister_course(C) leaves S.registered_courses and C.enrolled_students
\* equal to what they were before the two calls.
C11_RoundTripAnyState ==
    last.op = "register_then_unregister" =>
        /\ studentObj[last.obj].registered_courses =
               last.before[1].student[last.obj].registered_courses
        /\ courseObj[last.obj2].enrolled_students =
               last.before[1].course[last.obj2].enrolled_students

\* C11 (amended): in a reachable state where S is not registered in C, the two
\* calls raise nothing and leave S.registered_courses and C.enrolled_students
\* equal to what they were before.
C11_RoundTripWhenNotRegistered ==
    (/\ last.op = "register_then_unregister"
     /\ ~Contains(last.before[1].student[last.obj].registered_courses,
                  last.obj2)) =>
        /\ last.exc = "none"
        /\ studentObj[last.obj].registered_courses =
               last.before[1].student[last.obj].registered_courses
        /\ courseObj[last.obj2].enrolled_students =
               last.before[1].course[last.obj2].enrolled_students

\* The round trip was made by a student who held another course, on a course
\* the student was not registered in.
C11_Witness ==
    /\ last.op = "register_then_unregister"
    /\ ~Contains(last.before[1].student[last.obj].registered_courses,
                 last.obj2)
    /\ last.before[1].student[last.obj].registered_courses # <<>>
    /\ studentObj[last.obj].registered_courses # <<>>

\* C12: in every state reachable by assign_course/unassign_course calls,
\* immediately after I.assign_course(C) returns, C is in I.assigned_courses
\* and C.instructor is I.
C12_AssignLinksBoth ==
    last.op = "assign_course" =>
        /\ Contains(instructorObj[last.obj].assigned_courses, last.obj2)
        /\ courseObj[last.obj2].instructor = last.obj

\* C13: immediately after I.unassign_course(C) returns, C is not in
\* I.assigned_courses and C.instructor is not I, also for a course that was
\* constructed with instructor=I.
C13_UnassignClearsBoth ==
    last.op = "unassign_course" =>
        /\ ~Contains(instructorObj[last.obj].assigned_courses, last.obj2)
        /\ courseObj[last.obj2].instructor # last.obj

\* C14: when course C has instructor I and a different instructor J is
\* assigned to it, by J.assign_course(C) or by C.set_instructor(J), the call
\* raises no error and afterwards C.instructor is J.
C14_ReassignReplaces ==
    [][\A c \in CourseRefs, j \in InstructorRefs :
          (/\ \/ last'.op = "assign_course" /\ last'.obj = j /\ last'.obj2 = c
              \/ last'.op = "set_instructor" /\ last'.obj = c /\ last'.obj2 = j
           /\ courseObj[c].instructor # None
           /\ courseObj[c].instructor # j)
          => /\ last'.exc = "none"
             /\ courseObj'[c].instructor = j]_vars

\* The arguments the claim lists as invalid: an empty name, an age that is
\* negative or not an integer, an email that does not match the pattern.
C15_Invalid(a) ==
    \/ a.name = ""
    \/ a.age.type # "int"
    \/ a.age.v < 0
    \/ ~validate_email(a.email)

C15_Constructed(objs) ==
    LET a == last.args[1]
    IN  IF C15_Invalid(a)
        THEN last.exc # "none" /\ last.obj \notin DOMAIN objs
        ELSE /\ last.exc = "none"
             /\ last.obj \in DOMAIN objs
             /\ objs[last.obj].name = a.name
             /\ objs[last.obj].age = a.age
             /\ objs[last.obj].email = a.email

\* C15: constructing a Student or Instructor fails with an error and yields
\* no instance whenever the name is empty, the age is negative or not an
\* integer, or the email does not match the pattern; for every other input it
\* returns an instance carrying exactly the given fields.
C15_ConstructionValidates ==
    /\ (last.op = "Student" /\ last.args # <<>>) =>
           C15_Constructed(studentObj) /\ (last.exc = "none" =>
               studentObj[last.obj].student_id = last.id)
    /\ (last.op = "Instructor" /\ last.args # <<>>) =>
           C15_Constructed(instructorObj) /\ (last.exc = "none" =>
               instructorObj[last.obj].instructor_id = last.id)

\* A Student or Instructor the specification calls valid: a non-negative
\* integer age and an email that matches the pattern.
C18_Valid(x) ==
    x.age.type = "int" /\ x.age.v >= 0 /\ validate_email(x.email)

\* C18: for every valid Student or Instructor x, from_dict(x.to_dict())
\* succeeds and has the same name, age, email and id as x; for every Course c,
\* Course.from_dict(c.to_dict()) has the same course_id and course_name.
C18_DictRoundTrip ==
    /\ (last.op = "Student.from_dict" /\ C18_Valid(studentObj[last.obj])) =>
           /\ last.exc = "none"
           /\ last.args # <<>>
           /\ last.args[1].name = studentObj[last.obj].name
           /\ last.args[1].age = studentObj[last.obj].age
           /\ last.args[1].email = studentObj[last.obj].email
           /\ last.args[1].student_id = studentObj[last.obj].student_id
    /\ (last.op = "Instructor.from_dict"
           /\ C18_Valid(instructorObj[last.obj])) =>
           /\ last.exc = "none"
           /\ last.args # <<>>
           /\ last.args[1].name = instructorObj[last.obj].name
           /\ last.args[1].age = instructorObj[last.obj].age
           /\ last.args[1].email = instructorObj[last.obj].email
           /\ last.args[1].instructor_id =
                  instructorObj[last.obj].instructor_id
    /\ last.op = "Course.from_dict" =>
           /\ last.exc = "none"
           /\ last.args # <<>>
           /\ last.args[1].course_id = courseObj[last.obj].course_id
           /\ last.args[1].course_name = courseObj[last.obj].course_name

\* A valid student with a name went through to_dict and from_dict while an
\* instructor and a course existed too.
C18_Witness ==
    /\ last.op = "Student.from_dict"
    /\ C18_Valid(studentObj[last.obj])
    /\ studentObj[last.obj].name = "Ann"
    /\ last.args # <<>>
    /\ InstructorRefs # {}
    /\ CourseRefs # {}

\* The relationship graph of the mirrors of a program state h: the ids, the
\* (student, course) pairs seen from each side, the (course, instructor)
\* pairs.
C19_StudentSide(h) ==
    UNION {{<<h.students[k].key, h.course[c].course_id>> :
               c \in {h.student[h.students[k].val].registered_courses[j] :
                        j \in 1..Len(h.student[h.students[k].val]
                                          .registered_courses)}} :
           k \in 1..Len(h.students)}

C19_CourseSide(h) ==
    UNION {{<<h.student[s].student_id, h.courses[k].key>> :
               s \in {h.course[h.courses[k].val].enrolled_students[j] :
                        j \in 1..Len(h.course[h.courses[k].val]
                                          .enrolled_students)}} :
           k \in 1..Len(h.courses)}

C19_Assignments(h) ==
    {<<h.courses[k].key,
       IF h.course[h.courses[k].val].instructor = None THEN NULL
       ELSE h.instructor[h.course[h.courses[k].val].instructor]
                .instructor_id>> : k \in 1..Len(h.courses)}

C19_Graph(h) ==
    [students |-> DictKeys(h.students),
     instructors |-> DictKeys(h.instructors),
     courses |-> DictKeys(h.courses),
     studentSide |-> C19_StudentSide(h),
     courseSide |-> C19_CourseSide(h),
     assignments |-> C19_Assignments(h)]

\* C19: for every reachable mirror state, save_data followed by load_data of
\* that file into a DataManager on a fresh store completes and yields mirrors
\* with the same ids, the same registration pairs on both sides and the same
\* assignment pairs, courses without instructor and courses with enrolled
\* students included.
C19_ExportImportReproduces ==
    last.op = "export_import" =>
        /\ last.exc = "none"
        /\ C19_Graph(last.args[1]) = C19_Graph(Heap)

\* The records load_data has processed, of one kind, as ids in order.
C20_IdsOf(kind) ==
    LET sel == SelectSeq(last.log, LAMBDA ev : ev.kind = kind)
    IN  [k \in 1..Len(sel) |-> sel[k].id]

C20_IsPrefix(p, s) ==
    Len(p) <= Len(s) /\ \A k \in 1..Len(p) : p[k] = s[k]

C20_Ordered(rank) ==
    \A a \in 1..Len(last.log), b \in 1..Len(last.log) :
        a < b => rank[last.log[a].kind] <= rank[last.log[b].kind]

\* C20 (as stated): load_data processes all instructors first, then all
\* students, then all courses, then the enrolled-student lists; no student is
\* processed before the last instructor and no registration before the last
\* course.
C20_InstructorsFirst ==
    last.op = "export_import" =>
        C20_Ordered([instructor |-> 1, student |-> 2, course |-> 3,
                     registration |-> 4])

\* C20 (amended): as far as it gets, load_data processes the students of the
\* document first, in document order, then the instructors, then the courses,
\* then the enrolled-student lists; no instructor is processed before the
\* last student, no course before the last instructor and no registration
\* before the last course, and a load that raises nothing has processed every
\* student, instructor and course of the document.
C20_StudentsFirst ==
    last.op = "export_import" =>
        LET doc == DataManager_save_data(Heap)
            sids == [k \in 1..Len(doc.students) |-> doc.students[k].student_id]
            iids == [k \in 1..Len(doc.instructors) |->
                        doc.instructors[k].instructor_id]
            cids == [k \in 1..Len(doc.courses) |-> doc.courses[k].course_id]
        IN  /\ C20_Ordered([student |-> 1, instructor |-> 2, course |-> 3,
                            registration |-> 4])
            /\ C20_IsPrefix(C20_IdsOf("student"), sids)
            /\ C20_IsPrefix(C20_IdsOf("instructor"), iids)
            /\ C20_IsPrefix(C20_IdsOf("course"), cids)
            /\ C20_IdsOf("instructor") # <<>> => C20_IdsOf("student") = sids
            /\ C20_IdsOf("course") # <<>> => C20_IdsOf("instructor") = iids
            /\ C20_IdsOf("registration") # <<>> => C20_IdsOf("course") = cids
            /\ last.exc = "none" =>
                   /\ C20_IdsOf("student") = sids
                   /\ C20_IdsOf("instructor") = iids
                   /\ C20_IdsOf("course") = cids

\* A document with a student, an instructor and a course that lists the
\* student was loaded as far as the registration.
C20_Witness ==
    /\ last.op = "export_import"
    /\ C20_IdsOf("student") # <<>>
    /\ C20_IdsOf("instructor") # <<>>
    /\ C20_IdsOf("course") # <<>>
    /\ C20_IdsOf("registration") # <<>>

\* C16: after any sequence of add and update operations through the tkinter
\* form handlers, every entity in the students and instructors mirrors has a
\* non-negative age and an email matching the pattern.
C16_MirrorEntitiesValid ==
    /\ \A s \in MirrorStudents :
           /\ studentObj[s].age.type = "int"
           /\ studentObj[s].age.v >= 0
           /\ validate_email(studentObj[s].email)
    /\ \A i \in MirrorInstructors :
           /\ instructorObj[i].age.type = "int"
           /\ instructorObj[i].age.v >= 0
           /\ validate_email(instructorObj[i].email)

\* C17: when an update of an existing student or instructor is rejected
\* (error shown), none of the entity's name, age, email or course
\* relationships has changed from its value before the update.
C17_RejectedUpdateChangesNothing ==
    (/\ last.op \in {"tk.add_student", "tk.add_instructor"}
     /\ last.args[1].path = "update"
     /\ last.args[1].outcome = "error") =>
        /\ studentObj = last.before[1].student
        /\ instructorObj = last.before[1].instructor
        /\ courseObj = last.before[1].course

\* C21: after load_data completes on a store that may already hold rows,
\* every student and instructor in the mirror has a stored row with the same
\* id and the same name, age and email as the in-memory entity.
C21_ImportUpserts ==
    (last.op = "load_data" /\ last.exc = "none") =>
        /\ \A k \in 1..Len(students) :
               /\ students[k].key \in DOMAIN tbl_students
               /\ tbl_students[students[k].key] =
                      StudentRow(studentObj[students[k].val])
        /\ \A k \in 1..Len(instructors) :
               /\ instructors[k].key \in DOMAIN tbl_instructors
               /\ tbl_instructors[instructors[k].key] =
                      InstructorRow(instructorObj[instructors[k].val])

\* C22: every user-triggered handler of the tkinter front-end, in any
\* sequence, ends either in success or in a displayed error; no exception
\* escapes a handler, in particular when an update is submitted for a record
\* that was deleted while it was being edited.
C22_NoExceptionEscapes ==
    last.op \in {"tk.add_student", "tk.add_instructor", "tk.add_course",
                 "tk.edit_student", "tk.edit_instructor", "tk.edit_course",
                 "tk.delete_record", "tk.save_data", "tk.load_data"} =>
        /\ last.exc = "none"
        /\ last.args # <<>> => last.args[1].outcome \in {"success", "error"}

\* ---------------------------------------------------------------- C23
\* C23: in the PyQt front-end, adding a student or an instructor whose
\* business id equals that of an existing row leaves the table as it was,
\* and no two rows of a table carry the same business id.
C23_DuplicateBusinessIdRejected ==
    /\ (last.op = "qt.add_student"
          /\ \E k \in 1..Len(last.before[1].students) :
                 last.before[1].students[k].student_id = last.args[1].id)
           => qt.students = last.before[1].students
    /\ (last.op = "qt.add_instructor"
          /\ \E k \in 1..Len(last.before[1].instructors) :
                 last.before[1].instructors[k].instructor_id = last.args[1].id)
           => qt.instructors = last.before[1].instructors
    /\ \A j, k \in 1..Len(qt.students) :
           qt.students[j].student_id = qt.students[k].student_id => j = k
    /\ \A j, k \in 1..Len(qt.instructors) :
           qt.instructors[j].instructor_id = qt.instructors[k].instructor_id
               => j = k

\* ---------------------------------------------------------------- C30
\* C30: in the PyQt front-end, deleting with a table row selected removes
\* exactly the record that row displays: the table afterwards is the table
\* before without its row number selected_row, every other row kept.
C30_DeleteRemovesDisplayedRow ==
    /\ (last.op = "qt.delete_student" /\ last.args[1].selected_row >= 0) =>
           LET shown == get_students_db(last.before[1])
               r == last.args[1].selected_row + 1
           IN  get_students_db(qt) =
                   [k \in 1..(Len(shown) - 1) |->
                       IF k < r THEN shown[k] ELSE shown[k + 1]]
    /\ (last.op = "qt.delete_instructor" /\ last.args[1].selected_row >= 0) =>
           LET shown == get_instructors_db(last.before[1])
               r == last.args[1].selected_row + 1
           IN  get_instructors_db(qt) =
                   [k \in 1..(Len(shown) - 1) |->
                       IF k < r THEN shown[k] ELSE shown[k + 1]]

\* ---------------------------------------------------------------- C24
\* C24: create_tables on a store that already has the four tables, with or
\* without rows, raises no error and leaves every table and every row as it
\* was.
C24_CreateTablesIdempotent ==
    last.op = "create_tables" =>
        /\ last.exc = "none"
        /\ tbl_students = last.before[1].tbl_students
        /\ tbl_instructors = last.before[1].tbl_instructors
        /\ tbl_courses = last.before[1].tbl_courses
        /\ tbl_registrations = last.before[1].tbl_registrations

\* create_tables has run on a store with a row in each entity table.
C24_Witness ==
    /\ last.op = "create_tables"
    /\ DOMAIN tbl_students # {}
    /\ DOMAIN tbl_instructors # {}
    /\ DOMAIN tbl_courses # {}

\* ---------------------------------------------------------------- C25
\* C25: the document save_data writes has exactly the lists students,
\* instructors and courses; the k-th record of a list is that of the k-th
\* entity of the mirror, no id twice in a list; a course record's
\* instructor_id is its instructor's id, null without one, and its
\* enrolled_students are the ids of its enrolled students in order.
C25_SavedDocumentShape ==
    last.op = "save_data" =>
        LET doc == file[1]
        IN  /\ DOMAIN doc = {"students", "instructors", "courses"}
            /\ Len(doc.students) = Len(students)
            /\ Len(doc.instructors) = Len(instructors)
            /\ Len(doc.courses) = Len(courses)
            /\ \A k \in 1..Len(students) :
                   /\ doc.students[k].student_id = students[k].key
                   /\ doc.students[k].student_id =
                          studentObj[students[k].val].student_id
            /\ \A k \in 1..Len(instructors) :
                   /\ doc.instructors[k].instructor_id = instructors[k].key
                   /\ doc.instructors[k].instructor_id =
                          instructorObj[instructors[k].val].instructor_id
            /\ \A j, k \in 1..Len(doc.students) :
                   doc.students[j].student_id = doc.students[k].student_id
                       => j = k
            /\ \A j, k \in 1..Len(doc.instructors) :
                   doc.instructors[j].instructor_id =
                       doc.instructors[k].instructor_id => j = k
            /\ \A j, k \in 1..Len(doc.courses) :
                   doc.courses[j].course_id = doc.courses[k].course_id
                       => j = k
            /\ \A k \in 1..Len(courses) :
                   LET co == courseObj[courses[k].val]
                       rec == doc.courses[k]
                   IN  /\ rec.course_id = courses[k].key
                       /\ rec.course_id = co.course_id
                       /\ co.instructor = None => rec.instructor_id = NULL
                       /\ co.instructor # None =>
                              rec.instructor_id =
                                  instructorObj[co.instructor].instructor_id
                       /\ Len(rec.enrolled_students) =
                              Len(co.enrolled_students)
                       /\ \A n \in 1..Len(co.enrolled_students) :
                              rec.enrolled_students[n] =
                                  studentObj[co.enrolled_students[n]].student_id

\* A document was saved with a course of the mirror that has an instructor
\* and an enrolled student.
C25_Witness ==
    /\ last.op = "save_data"
    /\ \E k \in 1..Len(courses) :
           /\ courseObj[courses[k].val].instructor # None
           /\ courseObj[courses[k].val].enrolled_students # <<>>

\* ---------------------------------------------------------------- C26
\* C26: after any sequence of register_course, unregister_course and
\* Course.add_student calls no course is twice in a student's
\* registered_courses and no student is twice in a course's
\* enrolled_students.
C26_NoDuplicateLinks ==
    /\ \A s \in StudentRefs : \A c \in CourseRefs :
           Count(studentObj[s].registered_courses, c) <= 1
    /\ \A c \in CourseRefs : \A s \in StudentRefs :
           Count(courseObj[c].enrolled_students, s) <= 1

\* Course.add_student has left a course with two enrolled students, one
\* of which registered and unregistered before.
C26_Witness ==
    /\ last.op = "Course.add_student"
    /\ last.exc = "none"
    /\ Len(courseObj[last.obj].enrolled_students) = 2
    /\ Registered(last.obj2, last.obj)

\* ---------------------------------------------------------------- C27
\* C27: when the add path of add_student or add_instructor, with courses
\* selected or not, ends with the entity it constructed not in the mirror,
\* no course has that student among its enrolled_students and no course has
\* that instructor as its instructor.
C27_RejectedAddLeavesNoLink ==
    /\ (last.op = "tk.add_student" /\ last.args[1].path = "add"
          /\ last.obj # None /\ last.obj \notin MirrorStudents)
           => \A c \in CourseRefs : ~Enrolled(c, last.obj)
    /\ (last.op = "tk.add_instructor" /\ last.args[1].path = "add"
          /\ last.obj # None /\ last.obj \notin MirrorInstructors)
           => \A c \in CourseRefs : courseObj[c].instructor # last.obj

\* ---------------------------------------------------------------- C28
\* C28: in the tkinter front-end an id entry (student, instructor or
\* course) is disabled only while edit_mode is that record type and
\* current_edit_id is the id the entry shows.
C28_DisabledOnlyWhileEditing ==
    /\ ui.student_id.state = "disabled" =>
           ui.edit_mode = "student" /\ ui.current_edit_id = ui.student_id.text
    /\ ui.instructor_id.state = "disabled" =>
           ui.edit_mode = "instructor"
               /\ ui.current_edit_id = ui.instructor_id.text
    /\ ui.course_id.state = "disabled" =>
           ui.edit_mode = "course" /\ ui.current_edit_id = ui.course_id.text

\* ---------------------------------------------------------------- C29
\* C29: after a successful student update in the tkinter form with the
\* selected courses X, the student's registered_courses holds the courses
\* of X and no other, each once; the student is among the enrolled_students
\* of a course of the mirror exactly when the course is in X; and the form
\* is back in add mode.
C29_UpdateSetsCourses ==
    (last.op = "tk.add_student" /\ last.args[1].path = "update"
        /\ last.args[1].outcome = "success") =>
        LET X == {last.args[1].selected[k] :
                      k \in 1..Len(last.args[1].selected)}
            reg == studentObj[last.obj].registered_courses
        IN  /\ {reg[k] : k \in 1..Len(reg)} = X
            /\ Len(reg) = Cardinality(X)
            /\ \A c \in MirrorCourses : Enrolled(c, last.obj) <=> c \in X
            /\ ui.edit_mode = NULL
            /\ ui.current_edit_id = NULL

\* A student was updated with one of the two courses of the mirror
\* selected.
C29_Witness ==
    /\ last.op = "tk.add_student"
    /\ last.args[1].path = "update"
    /\ last.args[1].outcome = "success"
    /\ \E c, d \in MirrorCourses : Enrolled(c, last.obj) /\ ~Enrolled(d, last.obj)

====
